---- MODULE Spec2Model ----
(***************************************************************************)
(* Model of the sentence aligner (ConllWrapper, src/src/data_support/      *)
(* conll_wrapper.py) and of the distance probe's training and evaluation   *)
(* loops (DistanceProbe, src/network.py).                                  *)
(*                                                                         *)
(* Spec      : ConllWrapper.__init__ = read_conllu ; training_examples     *)
(* SpecProbe : DistanceProbe.train / train_on_batch / evaluate             *)
(***************************************************************************)
EXTENDS Integers, Sequences, FiniteSets

(* ---------------- bounds of the model ---------------- *)

\* lines of the CoNLL-U file that are read
MaxLines == 6
\* constants.MAX_TOKENS: a sentence with this many words or more is skipped
MAX_TOKENS == 4
\* constants.MAX_WORDPIECES: the fixed row length; a wordpiece sequence this
\* long or longer is skipped
MAX_WORDPIECES == 6

(* ---------------- the tokenizer (external collaborator) ---------------- *)

\* surface forms of the corpus: "a" is one wordpiece, "bb" two, and "z" a
\* form the tokenizer cleans away entirely (a soft hyphen, a control
\* character), which yields no wordpiece
Forms == {"a", "bb", "z"}

RECURSIVE Repeat(_, _)
Repeat(x, n) == IF n <= 0 THEN << >> ELSE <<x>> \o Repeat(x, n - 1)

\* self.tokenizer.tokenize(token, add_special_tokens=False)
TokenizeWord(form) ==
    CASE form = "a"  -> <<"wp">>
      [] form = "bb" -> <<"wp", "wp">>
      [] OTHER       -> << >>

RECURSIVE SumPieces(_)
SumPieces(words) ==
    IF words = << >> THEN 0
    ELSE Len(TokenizeWord(Head(words))) + SumPieces(Tail(words))

\* self.tokenizer.tokenize(' '.join(sent_tokens), add_special_tokens=False):
\* the joined string may tokenize into one piece fewer or more than the words
\* tokenized one by one
TokenizeJoined(words) ==
    { Repeat("wp", n) : n \in { m \in {SumPieces(words) - 1, SumPieces(words),
                                       SumPieces(words) + 1} : m >= 0 } }

\* self.tokenizer.convert_tokens_to_ids
ConvertTokenToId(piece) ==
    CASE piece = "[CLS]" -> 101
      [] piece = "[SEP]" -> 102
      [] OTHER           -> 7

(* ---------------- the input file ---------------- *)

\* a line of the file: blank (sentence boundary), comment ('#'), a row whose
\* ID is not a number (a multiword range such as 1-2), or a word row
\* (with its surface form and its head: 0 is the root)
Lines ==
    { [kind |-> k, form |-> "", head |-> 0] : k \in {"blank", "comment", "range"} }
    \cup { [kind |-> "word", form |-> "a", head |-> h] : h \in {0, 1} }
    \cup { [kind |-> "word", form |-> f, head |-> 1] : f \in Forms \ {"a"} }

\* the LEMMA and UPOS columns of a word row, drawn as determined by its form
LemmaOf(form) == form
PosOf(form) == IF form = "z" THEN "PUNCT" ELSE "X"

\* the LEMMA and UPOS columns of the rows of a sentence
LemmasOf(words) == [i \in 1..Len(words) |-> LemmaOf(words[i])]
PosTagsOf(words) == [i \in 1..Len(words) |-> PosOf(words[i])]

VARIABLES
    pc,                 \* "read", "pass1", "pass2", "done"
    nlines,             \* lines read so far
    sentid,             \* read_conllu's sentence counter
    sentence_tokens,    \* read_conllu's buffers of the sentence being read
    sentence_relations,
    tokens,             \* self.tokens, self.lemmas, self.pos, self.relations:
    lemmas,             \*   one entry per sentence, [sid, val]
    pos,
    relations,
    roots,              \* self.roots: [sid, val], one entry per root word
    tokens_copy,        \* self.tokens[:] that the first pass iterates
    wordpieces,         \* training_examples' locals
    indices_to_rm,
    number_examples,
    sent_idx,
    segments,
    max_segment,
    bert_ids,
    row_src,            \* the sentence index each output row was built from
    diagnostics,        \* the messages printed, [idx, reason]
    returned,           \* what training_examples returned
    raised,             \* an exception left training_examples
    \* ---- DistanceProbe ----
    ppc,                \* "new", "idle", "epoch", "batches", "eval_for", "eval_batches"
    languages,          \* self.languages
    Distance_Probe,     \* the shared projection (a tensor, abstracted to a number)
    Language_Maps,      \* language -> its map (a tensor, abstracted to a number)
    iterations,         \* self._optimizer.iterations
    train_batch,        \* the language tag of the batch train_on_batch was given
    epochs,             \* args.epochs
    epoch_idx,
    batches_left,       \* batches the epoch's iterator still yields
    curr_patience,
    best_weights,
    epoch_params,       \* history: the parameters when the epoch began
    all_losses,         \* evaluate's locals
    lang_pos,           \* position of the for loop in self.languages
    lang_idx,
    language,
    batch_idx,
    eval_seen,          \* batches the enumerate has yielded
    eval_left,          \* batches the language's iterator still yields
    eval_log,           \* history: the evaluate_on_batch losses, per language position
    eval_status,        \* "none", "running", "returned", "ValueError", "IndexError"
    eval_result         \* what evaluate returned

alignVars == << pc, nlines, sentid, sentence_tokens, sentence_relations,
                tokens, lemmas, pos, relations, roots, tokens_copy,
                wordpieces, indices_to_rm, number_examples, sent_idx,
                segments, max_segment, bert_ids, row_src, diagnostics,
                returned, raised >>

probeVars == << ppc, languages, Distance_Probe, Language_Maps, iterations,
                train_batch, epochs, epoch_idx, batches_left, curr_patience,
                best_weights, epoch_params, all_losses, lang_pos, lang_idx,
                language, batch_idx, eval_seen, eval_left, eval_log,
                eval_status, eval_result >>

vars == << alignVars, probeVars >>

(* ---------------- ConllWrapper.__init__ ---------------- *)

InitAlign ==
    /\ pc = "read"
    /\ nlines = 0
    /\ sentid = 0
    /\ sentence_tokens = << >>
    /\ sentence_relations = << >>
    /\ tokens = << >>
    /\ lemmas = << >>
    /\ pos = << >>
    /\ relations = << >>
    /\ roots = << >>
    /\ tokens_copy = << >>
    /\ wordpieces = << >>
    /\ indices_to_rm = << >>
    /\ number_examples = 0
    /\ sent_idx = 0
    /\ segments = << >>
    /\ max_segment = << >>
    /\ bert_ids = << >>
    /\ row_src = << >>
    /\ diagnostics = << >>
    /\ returned = << >>
    /\ raised = FALSE

\* no probe is constructed yet
InitProbe ==
    /\ ppc = "new"
    /\ languages = << >>
    /\ Distance_Probe = 0
    /\ Language_Maps = << >>
    /\ iterations = 0
    /\ train_batch = << >>
    /\ epochs = 0
    /\ epoch_idx = 0
    /\ batches_left = 0
    /\ curr_patience = 0
    /\ best_weights = "None"
    /\ epoch_params = << >>
    /\ all_losses = << >>
    /\ lang_pos = 0
    /\ lang_idx = "None"
    /\ language = "None"
    /\ batch_idx = 0
    /\ eval_seen = 0
    /\ eval_left = 0
    /\ eval_log = << >>
    /\ eval_status = "none"
    /\ eval_result = "None"

Init == InitAlign /\ InitProbe

(* ---------------- ConllWrapper.read_conllu ---------------- *)

\* line == '\n': the sentence read so far is appended to the four
\* per-sentence fields and the buffers are reset
ReadBlank ==
    /\ relations' = Append(relations, [sid |-> sentid, val |-> sentence_relations])
    /\ tokens' = Append(tokens, [sid |-> sentid, val |-> sentence_tokens])
    /\ lemmas' = Append(lemmas, [sid |-> sentid, val |-> LemmasOf(sentence_tokens)])
    /\ pos' = Append(pos, [sid |-> sentid, val |-> PosTagsOf(sentence_tokens)])
    /\ sentence_relations' = << >>
    /\ sentence_tokens' = << >>
    /\ sentid' = sentid + 1
    /\ UNCHANGED roots

\* a word row: fields[CONLLU_ID].isdigit(); the ids of a sentence are dense
\* and 1-based; a row whose head is 0 appends its id to self.roots
ReadWord(line) ==
    LET dep_id == Len(sentence_tokens) + 1
        head_id == line.head
    IN  /\ sentence_relations' = Append(sentence_relations, <<dep_id, head_id>>)
        /\ roots' = IF head_id = 0
                    THEN Append(roots, [sid |-> sentid, val |-> dep_id])
                    ELSE roots
        /\ sentence_tokens' = Append(sentence_tokens, line.form)
        /\ UNCHANGED << relations, tokens, lemmas, pos, sentid >>

\* one iteration of "for line in in_conllu"
ReadLine ==
    /\ UNCHANGED probeVars
    /\ pc = "read"
    /\ nlines < MaxLines
    /\ \E line \in Lines :
         CASE line.kind = "blank" -> ReadBlank
           [] line.kind = "word"  -> ReadWord(line)
           [] OTHER -> UNCHANGED << sentence_relations, sentence_tokens, sentid,
                                    relations, tokens, lemmas, pos, roots >>
    /\ nlines' = nlines + 1
    /\ UNCHANGED << pc, tokens_copy, wordpieces, indices_to_rm, number_examples,
                    sent_idx, segments, max_segment, bert_ids, row_src,
                    diagnostics, returned, raised >>

\* the file ends: read_conllu returns (a sentence without its closing blank
\* line is dropped with the buffers) and training_examples starts
EndOfFile ==
    /\ UNCHANGED probeVars
    /\ pc = "read"
    /\ pc' = "pass1"
    /\ number_examples' = Len(tokens)
    /\ tokens_copy' = tokens
    /\ wordpieces' = << >>
    /\ indices_to_rm' = << >>
    /\ sentence_tokens' = << >>
    /\ sentence_relations' = << >>
    /\ nlines' = 0
    /\ UNCHANGED << sentid, tokens, lemmas, pos, relations, roots, sent_idx,
                    segments, max_segment, bert_ids, row_src, diagnostics,
                    returned, raised >>

(* ---------------- ConllWrapper.training_examples ---------------- *)

InSeq(x, s) == \E i \in 1..Len(s) : s[i] = x

\* mutant: the limit itself is let through
TooManyTokens_Strict(sent_tokens) == Len(sent_tokens) > MAX_TOKENS

\* len(sent_tokens) >= constants.MAX_TOKENS
TooManyTokens(sent_tokens) == Len(sent_tokens) >= MAX_TOKENS

\* mutant: the wordpiece limit is not checked
TooManyWordpieces_Never(sent_wordpieces) == FALSE

\* len(sent_wordpieces) >= constants.MAX_WORDPIECES
TooManyWordpieces(sent_wordpieces) == Len(sent_wordpieces) >= MAX_WORDPIECES

\* first loop, one sentence: the joined tokenization wrapped in the markers,
\* then the two length limits
Pass1Step ==
    /\ UNCHANGED probeVars
    /\ pc = "pass1"
    /\ Len(wordpieces) < Len(tokens_copy)
    /\ LET idx == Len(wordpieces)
           sent_tokens == tokens_copy[idx + 1].val
       IN  \E joined \in TokenizeJoined(sent_tokens) :
             LET sent_wordpieces == <<"[CLS]">> \o joined \o <<"[SEP]">>
             IN  /\ wordpieces' = Append(wordpieces, sent_wordpieces)
                 /\ IF TooManyTokens(sent_tokens)
                    THEN /\ diagnostics' = Append(diagnostics,
                                [idx |-> idx, reason |-> "too many tokens"])
                         /\ indices_to_rm' = Append(indices_to_rm, idx)
                         /\ number_examples' = number_examples - 1
                    ELSE IF TooManyWordpieces(sent_wordpieces)
                    THEN /\ diagnostics' = Append(diagnostics,
                                [idx |-> idx, reason |-> "too many wordpieces"])
                         /\ indices_to_rm' = Append(indices_to_rm, idx)
                         /\ number_examples' = number_examples - 1
                    ELSE UNCHANGED << diagnostics, indices_to_rm, number_examples >>
    /\ UNCHANGED << pc, nlines, sentid, sentence_tokens, sentence_relations,
                    tokens, lemmas, pos, relations, roots, tokens_copy, sent_idx,
                    segments, max_segment, bert_ids, row_src, returned, raised >>

\* the first loop ends; the locals of the second are set
Pass1Exit ==
    /\ UNCHANGED probeVars
    /\ pc = "pass1"
    /\ Len(wordpieces) = Len(tokens_copy)
    /\ pc' = "pass2"
    /\ segments' = << >>
    /\ max_segment' = << >>
    /\ bert_ids' = << >>
    /\ sent_idx' = 0
    /\ UNCHANGED << nlines, sentid, sentence_tokens, sentence_relations, tokens,
                    lemmas, pos, relations, roots, tokens_copy, wordpieces,
                    indices_to_rm, number_examples, row_src, diagnostics,
                    returned, raised >>

\* np.zeros((constants.MAX_WORDPIECES,), dtype=np.int64) - 1
EmptySegments == [i \in 0..(MAX_WORDPIECES - 1) |-> -1]

\* mutant: the slice includes its upper end
SliceAssign_Inclusive(seg, lo, hi, v) ==
    [i \in DOMAIN seg |-> IF lo <= i /\ i <= hi THEN v ELSE seg[i]]

\* sent_segments[lo:hi] = v: a numpy slice assignment, which writes the
\* positions of lo..hi-1 that exist and ignores the rest
SliceAssign(seg, lo, hi, v) ==
    [i \in DOMAIN seg |-> IF lo <= i /\ i < hi THEN v ELSE seg[i]]

\* one iteration of "for token in sent_tokens"
AlignToken(st, token) ==
    LET worpieces_per_token == Len(TokenizeWord(token))
    IN  [seg |-> SliceAssign(st.seg, st.wordpiece_pointer,
                             st.wordpiece_pointer + worpieces_per_token,
                             st.segment_id),
         wordpiece_pointer |-> st.wordpiece_pointer + worpieces_per_token,
         segment_id |-> st.segment_id + 1]

RECURSIVE AlignTokens(_, _)
AlignTokens(st, toks) ==
    IF toks = << >> THEN st
    ELSE AlignTokens(AlignToken(st, Head(toks)), Tail(toks))

\* the segment map, the final wordpiece pointer and the final segment id of
\* a sentence
AlignSentence(sent_tokens) ==
    AlignTokens([seg |-> EmptySegments, wordpiece_pointer |-> 1, segment_id |-> 0],
                sent_tokens)

\* mutant: the end marker is not counted
Mismatch_NoEndMarker(wordpiece_pointer, sent_wordpieces) ==
    wordpiece_pointer # Len(sent_wordpieces)

\* wordpiece_pointer+1 != len(sent_wordpieces)
Mismatch(wordpiece_pointer, sent_wordpieces) ==
    wordpiece_pointer + 1 # Len(sent_wordpieces)

\* mutant: the id of the last word instead of the number of words
MaxSegmentOf_LastId(st) == st.segment_id - 1

\* max_segment.append(segment_id)
MaxSegmentOf(st) == st.segment_id

\* get_bert_ids: the vocabulary ids, right-padded with 0 (a negative count
\* of a Python list repetition pads nothing)
get_bert_ids(sent_wordpieces) ==
    [i \in 1..Len(sent_wordpieces) |-> ConvertTokenToId(sent_wordpieces[i])]
        \o Repeat(0, MAX_WORDPIECES - Len(sent_wordpieces))

\* mutant: the mismatching sentence is not marked for removal
MarkMismatch_Forgotten(rm, idx) == rm

\* indices_to_rm.append(sent_idx) of the second loop
MarkMismatch(rm, idx) == Append(rm, idx)

\* second loop, one sentence
Pass2Step ==
    /\ UNCHANGED probeVars
    /\ pc = "pass2"
    /\ sent_idx < Len(wordpieces)
    /\ LET sent_wordpieces == wordpieces[sent_idx + 1]
           sent_tokens == tokens[sent_idx + 1].val
           st == AlignSentence(sent_tokens)
       IN  IF InSeq(sent_idx, indices_to_rm)
           THEN UNCHANGED << indices_to_rm, segments, bert_ids, max_segment,
                             row_src, diagnostics >>
           ELSE IF Mismatch(st.wordpiece_pointer, sent_wordpieces)
           THEN /\ diagnostics' = Append(diagnostics,
                       [idx |-> sent_idx, reason |-> "mismatch"])
                /\ indices_to_rm' = MarkMismatch(indices_to_rm, sent_idx)
                /\ UNCHANGED << segments, bert_ids, max_segment, row_src >>
           ELSE /\ segments' = Append(segments, st.seg)
                /\ bert_ids' = Append(bert_ids, get_bert_ids(sent_wordpieces))
                /\ max_segment' = Append(max_segment, MaxSegmentOf(st))
                /\ row_src' = Append(row_src, sent_idx)
                /\ UNCHANGED << indices_to_rm, diagnostics >>
    /\ sent_idx' = sent_idx + 1
    /\ UNCHANGED << pc, nlines, sentid, sentence_tokens, sentence_relations,
                    tokens, lemmas, pos, relations, roots, tokens_copy,
                    wordpieces, number_examples, returned, raised >>

(* ---------------- ConllWrapper.remove_indices ---------------- *)

RECURSIVE DropIndices(_, _, _)
\* [v for i, v in enumerate(field) if i not in indices_to_rm], from index i on
DropIndices(field, i, rm) ==
    IF i >= Len(field) THEN << >>
    ELSE (IF InSeq(i, rm) THEN << >> ELSE <<field[i + 1]>>)
         \o DropIndices(field, i + 1, rm)

\* "if self.<field>:" then the filtered list
RemoveFrom(field, rm) == IF field # << >> THEN DropIndices(field, 0, rm) ELSE field

\* tf.stack of a list of rows: an empty list stacks to an empty tensor, rows
\* of different lengths cannot be stacked
StackRaises(rows) == \E i, j \in 1..Len(rows) : Len(rows[i]) # Len(rows[j])

\* the second loop ends: remove_indices(indices_to_rm), then the three
\* tensors are stacked and returned
Pass2Exit ==
    /\ UNCHANGED probeVars
    /\ pc = "pass2"
    /\ sent_idx = Len(wordpieces)
    /\ pc' = "done"
    /\ tokens' = RemoveFrom(tokens, indices_to_rm)
    /\ lemmas' = RemoveFrom(lemmas, indices_to_rm)
    /\ pos' = RemoveFrom(pos, indices_to_rm)
    /\ relations' = RemoveFrom(relations, indices_to_rm)
    /\ roots' = RemoveFrom(roots, indices_to_rm)
    /\ raised' = StackRaises(bert_ids)
    /\ returned' = IF StackRaises(bert_ids) THEN << >>
                   ELSE << bert_ids, segments, max_segment >>
    /\ UNCHANGED << nlines, sentid, sentence_tokens, sentence_relations,
                    tokens_copy, wordpieces, indices_to_rm, number_examples,
                    sent_idx, segments, max_segment, bert_ids, row_src,
                    diagnostics >>

Next ==
    \/ ReadLine
    \/ EndOfFile
    \/ Pass1Step
    \/ Pass1Exit
    \/ Pass2Step
    \/ Pass2Exit

Spec == Init /\ [][Next]_vars

(* ======================= properties of the aligner ======================= *)

\* the sentences the second loop has dealt with (all of them once done)
Pass2Seen == IF pc \in {"pass2", "done"} THEN 0..(sent_idx - 1) ELSE {}

\* the words of sentence idx as read from the file
WordsOf(idx) == tokens_copy[idx + 1].val

\* the sentence passed both length limits of the first loop
WithinLimits(idx) ==
    /\ Len(WordsOf(idx)) < MAX_TOKENS
    /\ Len(wordpieces[idx + 1]) < MAX_WORDPIECES

DiagnosticsOf(idx) == { i \in 1..Len(diagnostics) : diagnostics[i].idx = idx }

Occurrences(seg, w) == Cardinality({ i \in DOMAIN seg : seg[i] = w })

\* the non-sentinel entries of a segment map never decrease from left to right
NonDecreasing(seg) ==
    \A i, j \in DOMAIN seg : (i < j /\ seg[i] # -1 /\ seg[j] # -1) => seg[i] <= seg[j]

\* position 0, the end marker and the padding hold the sentinel
SentinelsOf(seg, idx) ==
    /\ seg[0] = -1
    /\ \A i \in DOMAIN seg : i >= Len(wordpieces[idx + 1]) - 1 => seg[i] = -1

\* each word index occurs as often as the word has wordpieces of its own
CountsMatch(seg, idx) ==
    \A w \in 0..(Len(WordsOf(idx)) - 1) :
        Occurrences(seg, w) = Len(TokenizeWord(WordsOf(idx)[w + 1]))

\* C1 as stated: for every surviving sentence the non-sentinel entries of the
\* segment map are non-decreasing, cover exactly 0..word_count-1, each value w
\* occurs as often as word w has wordpieces, and every other position is -1
C1_Original ==
    \A k \in 1..Len(segments) :
        LET seg == segments[k]
            idx == row_src[k]
        IN  /\ NonDecreasing(seg)
            /\ { seg[i] : i \in DOMAIN seg } \ {-1} = 0..(Len(WordsOf(idx)) - 1)
            /\ CountsMatch(seg, idx)
            /\ SentinelsOf(seg, idx)

\* C1 as amended: for every surviving sentence the non-sentinel entries of the
\* segment map are non-decreasing word indices within 0..word_count-1, each
\* value w occurs exactly as often as word w has wordpieces of its own (a word
\* without wordpieces does not occur), and every other position is -1
C1_SegmentMap ==
    \A k \in 1..Len(segments) :
        LET seg == segments[k]
            idx == row_src[k]
        IN  /\ NonDecreasing(seg)
            /\ { seg[i] : i \in DOMAIN seg } \ {-1} \subseteq 0..(Len(WordsOf(idx)) - 1)
            /\ CountsMatch(seg, idx)
            /\ SentinelsOf(seg, idx)

\* C1 witness: a two-word sentence whose second word has two wordpieces
\* survived and has its segment map
C1_Witness ==
    \E k \in 1..Len(segments) :
        /\ WordsOf(row_src[k]) = <<"a", "bb">>
        /\ segments[k][3] = 1

\* C2 as stated: after construction the five per-sentence fields have the same
\* length and entry k of each comes from the same source sentence
C2_FieldsAligned ==
    pc = "done" =>
        /\ Len(lemmas) = Len(tokens)
        /\ Len(pos) = Len(tokens)
        /\ Len(relations) = Len(tokens)
        /\ Len(roots) = Len(tokens)
        /\ \A k \in 1..Len(tokens) :
              /\ lemmas[k].sid = tokens[k].sid
              /\ pos[k].sid = tokens[k].sid
              /\ relations[k].sid = tokens[k].sid
              /\ roots[k].sid = tokens[k].sid

\* the sentence has an alignment record / is marked for removal
HasRecord(idx) == InSeq(idx, row_src)
Rejected(idx) == InSeq(idx, indices_to_rm)

\* C3 as stated: a sentence within the limits is kept if and only if its final
\* wordpiece pointer (1 + the per-word wordpiece counts) equals the length of
\* its wordpiece sequence
C3_Original ==
    \A idx \in Pass2Seen :
        WithinLimits(idx) =>
            (HasRecord(idx) <=> 1 + SumPieces(WordsOf(idx)) = Len(wordpieces[idx + 1]))

\* C3 as amended: a sentence within the limits is kept if and only if its final
\* wordpiece pointer plus one, for the end marker, equals the length of its
\* wordpiece sequence; otherwise it is rejected as a mismatch and has no record
C3_KeptIffPointerPlusOne ==
    \A idx \in Pass2Seen :
        WithinLimits(idx) =>
            LET agree == 1 + SumPieces(WordsOf(idx)) + 1 = Len(wordpieces[idx + 1])
            IN  /\ HasRecord(idx) <=> agree
                /\ Rejected(idx) <=> ~agree
                /\ ~agree => \E i \in DiagnosticsOf(idx) : diagnostics[i].reason = "mismatch"
                /\ pc = "done" => ((\E k \in 1..Len(tokens) : tokens[k].sid = idx) <=> agree)

\* C3 witness: the run ended with one sentence within the limits rejected as a
\* mismatch and another one kept
C3_Witness ==
    /\ pc = "done"
    /\ \E idx \in Pass2Seen : WithinLimits(idx) /\ Rejected(idx) /\ Len(WordsOf(idx)) = 2
    /\ \E idx \in Pass2Seen : HasRecord(idx) /\ Len(WordsOf(idx)) = 2

\* C4: a sentence of MAX_TOKENS words or more gets exactly one diagnostic (the
\* one for too many tokens), no alignment record, and no entry in the
\* surviving per-sentence fields
C4_TooManyWords ==
    \A idx \in 0..(Len(wordpieces) - 1) :
        Len(WordsOf(idx)) >= MAX_TOKENS =>
            /\ Cardinality(DiagnosticsOf(idx)) = 1
            /\ \A i \in DiagnosticsOf(idx) : diagnostics[i].reason = "too many tokens"
            /\ ~HasRecord(idx)
            /\ Rejected(idx)
            /\ pc = "done" =>
                  /\ \A k \in 1..Len(tokens) : tokens[k].sid # idx
                  /\ \A k \in 1..Len(lemmas) : lemmas[k].sid # idx
                  /\ \A k \in 1..Len(pos) : pos[k].sid # idx
                  /\ \A k \in 1..Len(relations) : relations[k].sid # idx

\* C4 witness: the run ended, a sentence of exactly MAX_TOKENS words was
\* skipped and another sentence survived
C4_Witness ==
    /\ pc = "done"
    /\ \E idx \in 0..(Len(wordpieces) - 1) : Len(WordsOf(idx)) = MAX_TOKENS
    /\ Len(tokens) >= 1

\* C5: training_examples never raises; it ends by returning the three
\* collections built from the surviving sentences, also when none survives
C5_NeverRaises ==
    /\ ~raised
    /\ pc = "done" =>
          /\ returned = << bert_ids, segments, max_segment >>
          /\ \A i \in 1..3 : Len(returned[i]) = Len(tokens_copy) - Len(indices_to_rm)

\* C5 witness: the run ended without raising although every sentence was
\* rejected, one in the first loop and one in the second, and returned empty
\* collections
C5_Witness ==
    /\ pc = "done"
    /\ ~raised
    /\ Len(tokens_copy) >= 2
    /\ Len(indices_to_rm) = Len(tokens_copy)
    /\ \E i, j \in 1..Len(diagnostics) :
          /\ diagnostics[i].reason = "too many wordpieces"
          /\ diagnostics[j].reason = "mismatch"
    /\ returned = << << >>, << >>, << >> >>

MaxOf(S) == CHOOSE x \in S : \A y \in S : y <= x

\* C9 as stated: the per-sentence scalar equals the largest segment id that
\* occurs in the sentence's segment map
C9_Original ==
    \A k \in 1..Len(max_segment) :
        LET ids == { segments[k][i] : i \in DOMAIN segments[k] } \ {-1}
        IN  ids # {} => max_segment[k] = MaxOf(ids)

\* C9 as amended: the per-sentence scalar equals the sentence's word count,
\* which is one more than the largest segment id a sentence can have
C9_WordCount ==
    \A k \in 1..Len(max_segment) :
        LET ids == { segments[k][i] : i \in DOMAIN segments[k] } \ {-1}
        IN  /\ max_segment[k] = Len(WordsOf(row_src[k]))
            /\ \A w \in ids : w < max_segment[k]

\* C9 witness: a surviving two-word sentence whose largest segment id is 1
C9_Witness ==
    \E k \in 1..Len(max_segment) :
        /\ Len(WordsOf(row_src[k])) = 2
        /\ \E i \in DOMAIN segments[k] : segments[k][i] = 1

\* C10: when training_examples returns, each of the three collections has as
\* many rows as self.tokens has sentences, and row k was built from the k-th
\* surviving sentence, in corpus order
C10_RowsMatchSurvivors ==
    (pc = "done" /\ ~raised) =>
        /\ \A i \in 1..3 : Len(returned[i]) = Len(tokens)
        /\ \A k \in 1..Len(tokens) :
              /\ row_src[k] = tokens[k].sid
              /\ k > 1 => row_src[k - 1] < row_src[k]
              /\ returned[1][k] = get_bert_ids(wordpieces[tokens[k].sid + 1])
              /\ returned[2][k] = AlignSentence(tokens[k].val).seg
              /\ returned[3][k] = Len(tokens[k].val)

\* C10 witness: the run ended with a limit rejection, a mismatch rejection
\* after a survivor, and two survivors
C10_Witness ==
    /\ pc = "done"
    /\ \E i, j \in 1..Len(diagnostics) :
          /\ diagnostics[i].reason \in {"too many tokens", "too many wordpieces"}
          /\ diagnostics[j].reason = "mismatch"
    /\ Len(tokens) >= 2

(* ========================= the distance probe ========================= *)

\* Probe.ES_PATIENCE
ES_PATIENCE == 5

\* epochs a train call may be configured with
MaxEpochs == 2
\* batches one epoch of training yields
MaxBatches == 2
\* batches one language's evaluation yields
MaxEvalBatches == 2

\* args.train_languages: language names, each a string (a sequence of characters)
en == <<"e", "n">>
de == <<"d", "e">>
fra == <<"f", "r", "a">>
LanguageLists == { << >>, <<en, de>>, <<fra, en>> }

\* what one optimizer step does to a parameter it is given: 0 leaves it as
\* it is (a zero gradient), 1 moves it to a value it did not have before
Steps == {0, 1}
\* the losses a batch may have
Losses == {1, 2}

Range(s) == { s[i] : i \in 1..Len(s) }

\* DistanceProbe.__init__: the projection and one map per language
Construct ==
    /\ ppc = "new"
    /\ \E ls \in LanguageLists :
         /\ languages' = ls
         /\ Language_Maps' = [lang \in Range(ls) |-> 1]
    /\ Distance_Probe' = 0
    /\ ppc' = "idle"
    /\ UNCHANGED << iterations, train_batch, epochs, epoch_idx, batches_left,
                    curr_patience, best_weights, epoch_params, all_losses,
                    lang_pos, lang_idx, language, batch_idx, eval_seen,
                    eval_left, eval_log, eval_status, eval_result >>
    /\ UNCHANGED alignVars

\* mutant: every language map is handed to the optimizer
TrainedMaps_All(lang) == DOMAIN Language_Maps

\* variables = [self.Distance_Probe, self.Language_Maps[batch.language]]:
\* the language maps among the variables the gradients are applied to
TrainedMaps(lang) == {lang}

\* train_on_batch: self._optimizer.apply_gradients(zip(gradients, variables))
TrainOnBatch(lang, stepProbe, stepMap) ==
    /\ train_batch' = lang
    /\ Distance_Probe' = Distance_Probe + stepProbe
    /\ Language_Maps' = [m \in DOMAIN Language_Maps |->
                           IF m \in TrainedMaps(lang)
                           THEN Language_Maps[m] + stepMap
                           ELSE Language_Maps[m]]
    /\ iterations' = iterations + 1

\* train is called, on a probe not trained before: curr_patience = 0,
\* best_weights = None
TrainStart ==
    /\ ppc = "idle"
    /\ iterations = 0
    /\ \E e \in 0..MaxEpochs : epochs' = e
    /\ epoch_idx' = 0
    /\ curr_patience' = 0
    /\ best_weights' = "None"
    /\ ppc' = "epoch"
    /\ UNCHANGED << languages, Distance_Probe, Language_Maps, iterations,
                    train_batch, batches_left, epoch_params, all_losses,
                    lang_pos, lang_idx, language, batch_idx, eval_seen,
                    eval_left, eval_log, eval_status, eval_result >>
    /\ UNCHANGED alignVars

\* "for epoch_idx in range(args.epochs)": the next epoch begins and its batch
\* iterator is made, or the epochs are exhausted and train returns
TrainEpochBegin ==
    /\ ppc = "epoch"
    /\ IF epoch_idx < epochs
       THEN /\ ppc' = "batches"
            /\ \E n \in 0..MaxBatches : batches_left' = n
            /\ epoch_params' = << Distance_Probe, Language_Maps >>
       ELSE /\ ppc' = "idle"
            /\ UNCHANGED << batches_left, epoch_params >>
    /\ UNCHANGED << languages, Distance_Probe, Language_Maps, iterations,
                    train_batch, epochs, epoch_idx, curr_patience, best_weights,
                    all_losses, lang_pos, lang_idx, language, batch_idx,
                    eval_seen, eval_left, eval_log, eval_status, eval_result >>
    /\ UNCHANGED alignVars

\* batch_loss = self.train_on_batch(train_batch)
TrainBatch ==
    /\ ppc = "batches"
    /\ batches_left > 0
    /\ \E lang \in DOMAIN Language_Maps, stepProbe \in Steps, stepMap \in Steps :
         TrainOnBatch(lang, stepProbe, stepMap)
    /\ batches_left' = batches_left - 1
    /\ UNCHANGED << ppc, languages, epochs, epoch_idx, curr_patience,
                    best_weights, epoch_params, all_losses, lang_pos, lang_idx,
                    language, batch_idx, eval_seen, eval_left, eval_log,
                    eval_status, eval_result >>
    /\ UNCHANGED alignVars

\* the epoch's batches are exhausted; the validation and early-stopping
\* statements that follow are comments, so the next epoch comes
TrainEpochEnd ==
    /\ ppc = "batches"
    /\ batches_left = 0
    /\ epoch_idx' = epoch_idx + 1
    /\ ppc' = "epoch"
    /\ UNCHANGED << languages, Distance_Probe, Language_Maps, iterations,
                    train_batch, epochs, batches_left, curr_patience,
                    best_weights, epoch_params, all_losses, lang_pos, lang_idx,
                    language, batch_idx, eval_seen, eval_left, eval_log,
                    eval_status, eval_result >>
    /\ UNCHANGED alignVars

(* ---------------- DistanceProbe.evaluate ---------------- *)

\* a float as a fraction << numerator, denominator >>
AddTo(f, x) == << f[1] + x * f[2], f[2] >>
DivBy(f, n) == << f[1], f[2] * n >>
SameValue(f, g) == f[1] * g[2] = g[1] * f[2]

RECURSIVE SumOf(_)
SumOf(fs) ==
    IF fs = << >> THEN << 0, 1 >>
    ELSE LET r == SumOf(Tail(fs))
         IN  << Head(fs)[1] * r[2] + r[1] * Head(fs)[2], Head(fs)[2] * r[2] >>

\* all_losses.mean(): nan for an empty array
MeanOf(fs) == IF fs = << >> THEN "nan" ELSE DivBy(SumOf(fs), Len(fs))

\* a numpy array takes integers as indices, not strings
ValidIndex(idx, arr) == idx.type = "int" /\ 0 <= idx.v /\ idx.v < Len(arr)

\* evaluate is called: all_losses = np.zeros((len(self.languages)))
EvalStart ==
    /\ ppc = "idle"
    /\ eval_status = "none"
    /\ all_losses' = [i \in 1..Len(languages) |-> << 0, 1 >>]
    /\ eval_log' = [i \in 1..Len(languages) |-> << >>]
    /\ lang_pos' = 0
    /\ eval_status' = "running"
    /\ ppc' = "eval_for"
    /\ UNCHANGED << languages, Distance_Probe, Language_Maps, iterations,
                    train_batch, epochs, epoch_idx, batches_left, curr_patience,
                    best_weights, epoch_params, lang_idx, language, batch_idx,
                    eval_seen, eval_left, eval_result >>
    /\ UNCHANGED alignVars

\* "for lang_idx, language in self.languages": the next element of the list,
\* a language name, is unpacked into two targets; a name of two characters
\* unpacks into its characters, any other raises ValueError. Then the
\* language's batch iterator is made and batch_idx = 0
EvalUnpack ==
    /\ ppc = "eval_for"
    /\ lang_pos < Len(languages)
    /\ LET elem == languages[lang_pos + 1]
       IN  IF Len(elem) # 2
           THEN /\ eval_status' = "ValueError"
                /\ ppc' = "idle"
                /\ UNCHANGED << lang_idx, language, batch_idx, eval_seen, eval_left >>
           ELSE /\ lang_idx' = [type |-> "str", v |-> elem[1]]
                /\ language' = elem[2]
                /\ \E n \in 0..MaxEvalBatches : eval_left' = n
                /\ batch_idx' = 0
                /\ eval_seen' = 0
                /\ ppc' = "eval_batches"
                /\ UNCHANGED eval_status
    /\ UNCHANGED << languages, Distance_Probe, Language_Maps, iterations,
                    train_batch, epochs, epoch_idx, batches_left, curr_patience,
                    best_weights, epoch_params, all_losses, lang_pos, eval_log,
                    eval_result >>
    /\ UNCHANGED alignVars

\* one batch: batch_loss = self.evaluate_on_batch(batch);
\* all_losses[lang_idx] += batch_loss
EvalBatch ==
    /\ ppc = "eval_batches"
    /\ eval_left > 0
    /\ \E batch_loss \in Losses :
         /\ eval_log' = [eval_log EXCEPT ![lang_pos + 1] = Append(@, batch_loss)]
         /\ IF ValidIndex(lang_idx, all_losses)
            THEN /\ all_losses' = [all_losses EXCEPT ![lang_idx.v + 1] = AddTo(@, batch_loss)]
                 /\ UNCHANGED << ppc, eval_status >>
            ELSE /\ eval_status' = "IndexError"
                 /\ ppc' = "idle"
                 /\ UNCHANGED all_losses
    /\ batch_idx' = eval_seen
    /\ eval_seen' = eval_seen + 1
    /\ eval_left' = eval_left - 1
    /\ UNCHANGED << languages, Distance_Probe, Language_Maps, iterations,
                    train_batch, epochs, epoch_idx, batches_left, curr_patience,
                    best_weights, epoch_params, lang_pos, lang_idx, language,
                    eval_result >>
    /\ UNCHANGED alignVars

\* the language's batches are exhausted:
\* all_losses[lang_idx] = all_losses[lang_idx] / (batch_idx + 1)
EvalEndLanguage ==
    /\ ppc = "eval_batches"
    /\ eval_left = 0
    /\ IF ValidIndex(lang_idx, all_losses)
       THEN /\ all_losses' = [all_losses EXCEPT ![lang_idx.v + 1] = DivBy(@, batch_idx + 1)]
            /\ lang_pos' = lang_pos + 1
            /\ ppc' = "eval_for"
            /\ UNCHANGED eval_status
       ELSE /\ eval_status' = "IndexError"
            /\ ppc' = "idle"
            /\ UNCHANGED << all_losses, lang_pos >>
    /\ UNCHANGED << languages, Distance_Probe, Language_Maps, iterations,
                    train_batch, epochs, epoch_idx, batches_left, curr_patience,
                    best_weights, epoch_params, lang_idx, language, batch_idx,
                    eval_seen, eval_left, eval_log, eval_result >>
    /\ UNCHANGED alignVars

\* the languages are exhausted: return all_losses.mean()
EvalReturn ==
    /\ ppc = "eval_for"
    /\ lang_pos = Len(languages)
    /\ eval_result' = MeanOf(all_losses)
    /\ eval_status' = "returned"
    /\ ppc' = "idle"
    /\ UNCHANGED << languages, Distance_Probe, Language_Maps, iterations,
                    train_batch, epochs, epoch_idx, batches_left, curr_patience,
                    best_weights, epoch_params, all_losses, lang_pos, lang_idx,
                    language, batch_idx, eval_seen, eval_left, eval_log >>
    /\ UNCHANGED alignVars

NextProbe ==
    \/ Construct
    \/ TrainStart
    \/ TrainEpochBegin
    \/ TrainBatch
    \/ TrainEpochEnd
    \/ EvalStart
    \/ EvalUnpack
    \/ EvalBatch
    \/ EvalEndLanguage
    \/ EvalReturn

SpecProbe == Init /\ [][NextProbe]_vars

(* ======================= properties of the probe ======================= *)

\* C6: a train_on_batch call with a batch of language L leaves the map of
\* every other language exactly as it was (and the list of languages too)
C6_OtherMapsUnchanged ==
    [][ iterations' # iterations =>
          /\ DOMAIN Language_Maps' = DOMAIN Language_Maps
          /\ \A m \in DOMAIN Language_Maps :
                m # train_batch' => Language_Maps'[m] = Language_Maps[m] ]_vars

\* C6 witness: after one train_on_batch call the map of the batch's language
\* has changed and the probe holds another language's map
C6_Witness ==
    /\ iterations = 1
    /\ Language_Maps[train_batch] # 1
    /\ \E m \in DOMAIN Language_Maps : m # train_batch

\* the mean of the per-language means of the evaluate_on_batch losses
MeanOfMeans(log) ==
    MeanOf([i \in 1..Len(log) |->
              DivBy(SumOf([j \in 1..Len(log[i]) |-> << log[i][j], 1 >>]),
                    IF Len(log[i]) = 0 THEN 1 ELSE Len(log[i]))])

\* C7 as stated: evaluate over K >= 1 languages ends by returning one scalar,
\* the mean of the per-language means of the evaluate_on_batch losses
C7_Evaluate ==
    (eval_status \notin {"none", "running"} /\ Len(languages) >= 1) =>
        /\ eval_status = "returned"
        /\ SameValue(eval_result, MeanOfMeans(eval_log))

\* C8 as stated: at the end of an epoch (after the first) that left the
\* parameters, and so the validation loss, as they were, the patience counter
\* increments; and once the counter exceeds ES_PATIENCE, train stops
C8_EarlyStopping ==
    [][ (ppc = "batches" /\ ppc' # "batches") =>
          /\ (epoch_idx >= 1 /\ epoch_params = << Distance_Probe, Language_Maps >>)
                => curr_patience' = curr_patience + 1
          /\ curr_patience' > ES_PATIENCE => ppc' = "idle" ]_vars

====
